---- MODULE Spec2Model ----
(***************************************************************************)
(* Model of miio/airconditioningcompanionMCN.py: the status container      *)
(* AirConditioningCompanionStatus (constructor and property getters) and   *)
(* the device class AirConditioningCompanionMcn02 (status, on, off) over   *)
(* the transport call Device.send.                                         *)
(*                                                                         *)
(* Python strings are sequences of one-character strings, Python values    *)
(* are tagged tuples, and the outcome of an evaluation is either           *)
(* <<"return", value>> or <<"raise", exception class>>.                    *)
(***************************************************************************)
EXTENDS Integers, Sequences, FiniteSets, TLC

(***************************************************************************)
(* Bounds of the model.                                                    *)
(***************************************************************************)
\* number of transport calls kept in the log
MaxCalls == 2
\* depth at which the interpreter stops a runaway recursion
RecursionLimit == 4

(***************************************************************************)
(* Python values and outcomes.                                             *)
(***************************************************************************)
None == <<"None">>
IntV(n) == <<"int", n>>
\* a float, held in tenths (376.0 is 3760, 21.9 is 219)
FloatV(tenths) == <<"float", tenths>>
StrV(s) == <<"str", s>>
BoolV(b) == <<"bool", b>>
EnumV(cls, name) == <<"enum", cls, name>>

Ret(v) == <<"return", v>>
Raise(e) == <<"raise", e>>
IsRaise(o) == o[1] = "raise"
Val(o) == o[2]

\* try: body / except caught: return handler
TryExcept(body, caught, handler) ==
    IF IsRaise(body) /\ Val(body) = caught THEN Ret(handler) ELSE body

(***************************************************************************)
(* Wire codes of the enumerations.                                         *)
(***************************************************************************)
OperationMode ==
    { [name |-> "Cool", value |-> <<"M", "0">>],
      [name |-> "Heat", value |-> <<"M", "1">>],
      [name |-> "Auto", value |-> <<"M", "2">>],
      [name |-> "Ventilate", value |-> <<"M", "3">>],
      [name |-> "Dehumidify", value |-> <<"M", "4">>] }

FanSpeed ==
    { [name |-> "Auto", value |-> <<"S", "0">>],
      [name |-> "Low", value |-> <<"S", "1">>],
      [name |-> "Medium", value |-> <<"S", "2">>],
      [name |-> "High", value |-> <<"S", "3">>] }

SwingMode ==
    { [name |-> "On", value |-> <<"D", "0">>],
      [name |-> "Off", value |-> <<"D", "9", "9", "9">>] }

Power ==
    { [name |-> "On", value |-> <<"P", "0">>],
      [name |-> "Off", value |-> <<"P", "1">>] }

\* Cls(value): the member whose value is the argument, ValueError if none
EnumCall(cls, members, v) ==
    IF \E m \in members : StrV(m.value) = v
    THEN Ret(EnumV(cls, (CHOOSE m \in members : StrV(m.value) = v).name))
    ELSE Raise("ValueError")

\* Cls.Member.value
MemberValue(members, name) ==
    StrV((CHOOSE m \in members : m.name = name).value)

(***************************************************************************)
(* Built-ins: str.split, indexing, slicing, int().                         *)
(***************************************************************************)
\* position of the first sep in s, 0 if there is none
FirstSep(s, sep) ==
    IF \E i \in 1..Len(s) : s[i] = sep
    THEN CHOOSE i \in 1..Len(s) : s[i] = sep /\ \A j \in 1..(i - 1) : s[j] # sep
    ELSE 0

RECURSIVE split(_, _)
\* s.split(sep): always at least one token, "".split("_") is [""]
split(s, sep) ==
    LET i == FirstSep(s, sep)
    IN  IF i = 0 THEN <<s>>
        ELSE <<SubSeq(s, 1, i - 1)>> \o split(SubSeq(s, i + 1, Len(s)), sep)

\* seq[i] with a 0-based non-negative index
Index(seq, i) ==
    IF i < Len(seq) THEN Ret(seq[i + 1]) ELSE Raise("IndexError")

\* s[1:]
SliceFrom1(s) == SubSeq(s, 2, Len(s))

DigitChars == <<"0", "1", "2", "3", "4", "5", "6", "7", "8", "9">>
IsDigit(c) == \E d \in 1..10 : DigitChars[d] = c
DigitVal(c) == (CHOOSE d \in 1..10 : DigitChars[d] = c) - 1

RECURSIVE DigitsVal(_)
DigitsVal(s) ==
    IF s = <<>> THEN 0
    ELSE DigitsVal(SubSeq(s, 1, Len(s) - 1)) * 10 + DigitVal(s[Len(s)])

\* a float in tenths truncated toward zero
Trunc(tenths) ==
    IF tenths >= 0 THEN tenths \div 10 ELSE -((-tenths) \div 10)

\* int(str): an optional sign followed by at least one decimal digit
IntOfStr(s) ==
    LET signed == Len(s) > 0 /\ s[1] \in {"+", "-"}
        body == IF signed THEN SubSeq(s, 2, Len(s)) ELSE s
    IN  IF Len(body) > 0 /\ \A i \in 1..Len(body) : IsDigit(body[i])
        THEN Ret(IntV(IF signed /\ s[1] = "-" THEN -DigitsVal(body)
                      ELSE DigitsVal(body)))
        ELSE Raise("ValueError")

\* int(v)
int(v) ==
    CASE v[1] = "int" -> Ret(v)
      [] v[1] = "float" -> Ret(IntV(Trunc(v[2])))
      [] v[1] = "str" -> IntOfStr(v[2])
      [] OTHER -> Raise("TypeError")

(***************************************************************************)
(* class AirConditioningCompanionStatus.  An object is a record of its     *)
(* instance attributes, data and state.                                    *)
(***************************************************************************)
\* the names the class defines as @property without a setter
Properties ==
    {"load_power", "power", "is_on", "target_temperature", "swing_mode",
     "fan_speed", "mode"}

\* self.name = v: a property without a setter refuses the assignment
SetAttr(self, name, v) ==
    IF name \in Properties THEN [self |-> self, out |-> Raise("AttributeError")]
    ELSE [self |-> (name :> v) @@ self, out |-> Ret(None)]

\* __init__(self, data): the object it leaves behind and how it ends
init(data) ==
    LET s1 == SetAttr(<<>>, "data", data)
        s2 == SetAttr(s1.self, "state", data.state)
        s3 == SetAttr(s2.self, "load_power", data.load_power)
    IN  IF IsRaise(s1.out) THEN s1
        ELSE IF IsRaise(s2.out) THEN s2
        ELSE s3

RECURSIVE load_power_at(_, _)
\* the load_power getter entered at the given call depth: self.load_power
\* inside the getter is the property again
load_power_at(self, depth) ==
    IF depth >= RecursionLimit THEN Raise("RecursionError")
    ELSE LET inner == load_power_at(self, depth + 1)
         IN  IF IsRaise(inner) THEN inner ELSE int(Val(inner))

load_power(self) == load_power_at(self, 0)

power(self) ==
    LET tok == Index(self["state"], 0)
        num == IF IsRaise(tok) THEN tok ELSE int(StrV(Val(tok)))
    IN  IF IsRaise(num) THEN num
        ELSE Ret(StrV(IF Val(num) = MemberValue(Power, "On")
                      THEN <<"o", "n">> ELSE <<"o", "f", "f">>))

is_on(self) ==
    LET p == power(self)
    IN  IF IsRaise(p) THEN p ELSE Ret(BoolV(Val(p) = StrV(<<"o", "n">>)))

target_temperature(self) ==
    LET tok == Index(self["state"], 2)
        body == IF IsRaise(tok) THEN tok ELSE int(StrV(SliceFrom1(Val(tok))))
    IN  TryExcept(body, "TypeError", None)

swing_mode(self) ==
    LET tok == Index(self["state"], 4)
        body == IF IsRaise(tok) THEN tok
                ELSE EnumCall("SwingMode", SwingMode, StrV(Val(tok)))
    IN  TryExcept(body, "TypeError", None)

fan_speed(self) ==
    LET tok == Index(self["state"], 3)
        body == IF IsRaise(tok) THEN tok
                ELSE EnumCall("FanSpeed", FanSpeed, StrV(Val(tok)))
    IN  TryExcept(body, "TypeError", None)

mode(self) ==
    LET tok == Index(self["state"], 1)
        body == IF IsRaise(tok) THEN tok
                ELSE EnumCall("OperationMode", OperationMode, StrV(Val(tok)))
    IN  TryExcept(body, "TypeError", None)

\* getattr(self, field) for a property of the class
GetProperty(self, field) ==
    CASE field = "load_power" -> load_power(self)
      [] field = "power" -> power(self)
      [] field = "is_on" -> is_on(self)
      [] field = "target_temperature" -> target_temperature(self)
      [] field = "swing_mode" -> swing_mode(self)
      [] field = "fan_speed" -> fan_speed(self)
      [] field = "mode" -> mode(self)

(***************************************************************************)
(* Inputs: the state strings and load powers the transport may answer.     *)
(***************************************************************************)
Underscore == "_"

RECURSIVE Join(_)
\* the tokens joined by "_", as the device puts them on the wire
Join(tokens) ==
    IF tokens = <<>> THEN <<>>
    ELSE IF Len(tokens) = 1 THEN tokens[1]
    ELSE tokens[1] \o <<Underscore>> \o Join(Tail(tokens))

\* the docstring's example state
ExampleTokens == << <<"P", "0">>, <<"M", "0">>, <<"T", "2", "8">>,
                    <<"S", "1">>, <<"D", "0">> >>

\* all states made of five known wire codes
KnownTokenLists ==
    { << p.value, m.value, <<"T", "2", "8">>, s.value, d.value >> :
        p \in Power, m \in OperationMode, s \in FanSpeed, d \in SwingMode }

\* tokens that are not the wire code their position expects
OddTokens ==
    << { <<"0">>, <<"1">>, <<"P">>, <<>> },
       { <<"M", "9">>, <<"m", "0">> },
       { <<"T">>, <<"T", "x", "x">>, <<"2", "8">>, <<"T", "-", "5">>, <<>> },
       { <<"S", "9">>, <<"S">> },
       { <<"D", "1">>, <<"D", "9">> } >>

\* the example with one token replaced by an odd one, cut short, or extended
OddTokenLists ==
    { [ExampleTokens EXCEPT ![i] = t] : i \in {1}, t \in OddTokens[1] }
    \cup { [ExampleTokens EXCEPT ![i] = t] : i \in {2}, t \in OddTokens[2] }
    \cup { [ExampleTokens EXCEPT ![i] = t] : i \in {3}, t \in OddTokens[3] }
    \cup { [ExampleTokens EXCEPT ![i] = t] : i \in {4}, t \in OddTokens[4] }
    \cup { [ExampleTokens EXCEPT ![i] = t] : i \in {5}, t \in OddTokens[5] }
    \cup { SubSeq(ExampleTokens, 1, n) : n \in 0..4 }
    \cup { ExampleTokens \o << <<"X">> >> }

StateStrings == { Join(l) : l \in KnownTokenLists \cup OddTokenLists }

\* load powers in tenths of a watt: 376.0, 21.9, -21.9
LoadPowers == { FloatV(3760), FloatV(219), FloatV(-219) }

\* the two-element answers to get_prop
StatusResponses == { <<s, w>> : s \in StateStrings, w \in LoadPowers }

\* the opaque acknowledgements of set_power
Acks == { <<"list", <<"ok">>>>, <<"list", <<"error">>>> }

(***************************************************************************)
(* State.                                                                  *)
(***************************************************************************)
VARIABLES
    calls,    \* the transport calls made so far, in order
    op,       \* the operation that ran last
    reply,    \* what the transport answered to it
    result,   \* how the method ended: the value returned or the exception
    rec,      \* the status object the constructor last worked on
    reads     \* per property of rec, the outcome of reading it

vars == <<calls, op, reply, result, rec, reads>>

NoObject == <<>>
Unread == <<"unread">>
NoReads == [f \in Properties |-> Unread]

(***************************************************************************)
(* class AirConditioningCompanionMcn02 over Device.send.                   *)
(***************************************************************************)
Call(method, params) == [method |-> method, params |-> params]

\* self.send(method, params): one entry in the transport's log; the answer
\* (a response or a device exception) is the transport's
send(log, method, params, answer) ==
    [log |-> Append(log, Call(method, params)), out |-> answer]

\* AirConditioningCompanionStatus({'state': data[0].split('_'),
\*                                 'load_power': data[1]})
construct_status(data) ==
    init([state |-> split(data[1], Underscore), load_power |-> data[2]])

\* status() using two transport calls
status_run_retry(log, answer) ==
    LET first == send(log, "get_prop", <<"ac_state", "load_power">>, answer)
        sent == send(first.log, "get_prop", <<"ac_state", "load_power">>, answer)
        made == construct_status(Val(sent.out))
    IN  IF IsRaise(sent.out)
        THEN [log |-> sent.log, rec |-> <<>>, out |-> sent.out]
        ELSE [log |-> sent.log, rec |-> made.self,
              out |-> IF IsRaise(made.out) THEN made.out ELSE Ret(made.self)]

\* status(): the log, the object constructed and the outcome
status_run(log, answer) ==
    LET sent == send(log, "get_prop", <<"ac_state", "load_power">>, answer)
        made == construct_status(Val(sent.out))
    IN  IF IsRaise(sent.out)
        THEN [log |-> sent.log, rec |-> NoObject, out |-> sent.out]
        ELSE [log |-> sent.log, rec |-> made.self,
              out |-> IF IsRaise(made.out) THEN made.out ELSE Ret(made.self)]

\* on() sending the command twice
on_run_twice(log, answer) ==
    LET first == send(log, "set_power", <<"on">>, answer)
        sent == send(first.log, "set_power", <<"on">>, answer)
    IN  [log |-> sent.log, out |-> sent.out]

on_run(log, answer) ==
    LET sent == send(log, "set_power", <<"on">>, answer)
    IN  [log |-> sent.log, out |-> sent.out]

off_run(log, answer) ==
    LET sent == send(log, "set_power", <<"off">>, answer)
    IN  [log |-> sent.log, out |-> sent.out]

\* what the transport may answer
StatusAnswers == { Ret(r) : r \in StatusResponses } \cup { Raise("DeviceException") }
PowerAnswers == { Ret(a) : a \in Acks } \cup { Raise("DeviceException") }

Init ==
    /\ calls = <<>>
    /\ op = "none"
    /\ reply = None
    /\ result = None
    /\ rec = NoObject
    /\ reads = NoReads

status ==
    /\ Len(calls) < MaxCalls
    /\ \E answer \in StatusAnswers :
         LET run == status_run(calls, answer)
         IN  /\ calls' = run.log
             /\ op' = "status"
             /\ reply' = answer
             /\ result' = run.out
             /\ rec' = run.rec
    /\ UNCHANGED reads

on ==
    /\ Len(calls) < MaxCalls
    /\ \E answer \in PowerAnswers :
         LET run == on_run(calls, answer)
         IN  /\ calls' = run.log
             /\ op' = "on"
             /\ reply' = answer
             /\ result' = run.out
    /\ UNCHANGED <<rec, reads>>

off ==
    /\ Len(calls) < MaxCalls
    /\ \E answer \in PowerAnswers :
         LET run == off_run(calls, answer)
         IN  /\ calls' = run.log
             /\ op' = "off"
             /\ reply' = answer
             /\ result' = run.out
    /\ UNCHANGED <<rec, reads>>

Next == status \/ on \/ off

Spec == Init /\ [][Next]_vars

(***************************************************************************)
(* The decoder on its own: the status object the constructor leaves behind *)
(* for one answer of the transport, decoded again and read property by     *)
(* property.  reads keeps, per property, the outcome seen for this answer. *)
(***************************************************************************)
InitDecoder ==
    /\ calls = <<>>
    /\ op = "none"
    /\ result = None
    /\ \E r \in StatusResponses :
         /\ reply = Ret(r)
         /\ rec = construct_status(r).self
    /\ reads = NoReads

\* the same answer decoded once more
Decode ==
    /\ rec' = construct_status(Val(reply)).self
    /\ op' = "decode"
    /\ UNCHANGED <<calls, reply, result, reads>>

\* a read whose getter consumes the token it decodes
ReadFieldConsuming ==
    /\ \E f \in Properties :
         reads' = [reads EXCEPT ![f] = GetProperty(rec, f)]
    /\ rec' = [rec EXCEPT !["state"] = Tail(@)]
    /\ op' = "read"
    /\ UNCHANGED <<calls, reply, result>>

\* one read of a property: the getters assign nothing
ReadField ==
    /\ \E f \in Properties :
         reads' = [reads EXCEPT ![f] = GetProperty(rec, f)]
    /\ op' = "read"
    /\ UNCHANGED <<calls, reply, result, rec>>

NextDecoder == Decode \/ ReadField

SpecDecoder == InitDecoder /\ [][NextDecoder]_vars

(***************************************************************************)
(* The wire-code table of the protocol and the values the properties are   *)
(* expected to decode to.                                                  *)
(***************************************************************************)
WireCodeTable ==
    { <<"power", <<"P", "0">>, StrV(<<"o", "n">>)>>,
      <<"power", <<"P", "1">>, StrV(<<"o", "f", "f">>)>>,
      <<"mode", <<"M", "0">>, EnumV("OperationMode", "Cool")>>,
      <<"mode", <<"M", "1">>, EnumV("OperationMode", "Heat")>>,
      <<"mode", <<"M", "2">>, EnumV("OperationMode", "Auto")>>,
      <<"mode", <<"M", "3">>, EnumV("OperationMode", "Ventilate")>>,
      <<"mode", <<"M", "4">>, EnumV("OperationMode", "Dehumidify")>>,
      <<"fan_speed", <<"S", "0">>, EnumV("FanSpeed", "Auto")>>,
      <<"fan_speed", <<"S", "1">>, EnumV("FanSpeed", "Low")>>,
      <<"fan_speed", <<"S", "2">>, EnumV("FanSpeed", "Medium")>>,
      <<"fan_speed", <<"S", "3">>, EnumV("FanSpeed", "High")>>,
      <<"swing_mode", <<"D", "0">>, EnumV("SwingMode", "On")>>,
      <<"swing_mode", <<"D", "9", "9", "9">>, EnumV("SwingMode", "Off")>> }

TableFields == {"power", "mode", "fan_speed", "swing_mode"}
EnumFields == {"mode", "fan_speed", "swing_mode"}

\* position (from 1) of the token a property decodes
TokenPos(f) ==
    CASE f = "power" -> 1
      [] f = "mode" -> 2
      [] f = "target_temperature" -> 3
      [] f = "fan_speed" -> 4
      [] f = "swing_mode" -> 5

HasToken(f, tokens) == TokenPos(f) <= Len(tokens)
IsWireCode(f, tok) == \E e \in WireCodeTable : e[1] = f /\ e[2] = tok
TableValue(f, tok) == (CHOOSE e \in WireCodeTable : e[1] = f /\ e[2] = tok)[3]

WasRead(f) == reads[f] # Unread

\* the value a token-backed property should read as: the decoded value of a
\* present and valid token, "off" for any other power token, None otherwise
Expected(f, tokens) ==
    IF ~HasToken(f, tokens) THEN None
    ELSE LET tok == tokens[TokenPos(f)]
         IN  CASE f = "power" ->
                    StrV(IF tok = <<"P", "0">> THEN <<"o", "n">>
                         ELSE <<"o", "f", "f">>)
               [] f = "target_temperature" ->
                    IF IsRaise(IntOfStr(SliceFrom1(tok))) THEN None
                    ELSE Val(IntOfStr(SliceFrom1(tok)))
               [] OTHER ->
                    IF IsWireCode(f, tok) THEN TableValue(f, tok) ELSE None

ExampleAnswer == Ret(<<Join(ExampleTokens), FloatV(3760)>>)
GetPropCall == Call("get_prop", <<"ac_state", "load_power">>)

(***************************************************************************)
(* Properties.                                                             *)
(***************************************************************************)

\* C1: when the transport answers get_prop with ["P0_M0_T28_S1_D0", 376.0],
\* status() returns a record whose fields read power "on", is_on true,
\* target_temperature 28, fan_speed Low, swing_mode On, mode Cool and
\* load_power 376.
C1_StatusExample ==
    (op = "status" /\ reply = ExampleAnswer) =>
        /\ ~IsRaise(result)
        /\ power(Val(result)) = Ret(StrV(<<"o", "n">>))
        /\ is_on(Val(result)) = Ret(BoolV(TRUE))
        /\ target_temperature(Val(result)) = Ret(IntV(28))
        /\ fan_speed(Val(result)) = Ret(EnumV("FanSpeed", "Low"))
        /\ swing_mode(Val(result)) = Ret(EnumV("SwingMode", "On"))
        /\ mode(Val(result)) = Ret(EnumV("OperationMode", "Cool"))
        /\ load_power(Val(result)) = Ret(IntV(376))

\* C2: power reads "on" exactly when token 0 is "P0" and "off" for every
\* other token 0, is_on is true exactly when power is "on", and reading
\* power never raises.
C2_PowerIffOnCode ==
    /\ WasRead("power") =>
         reads["power"] = Ret(Expected("power", rec["state"]))
    /\ WasRead("is_on") =>
         reads["is_on"] = Ret(BoolV(rec["state"][1] = <<"P", "0">>))

\* C3: on() makes exactly one transport call, send("set_power", ["on"]),
\* off() exactly one, send("set_power", ["off"]), and each ends with what
\* the transport answered, unchanged.
C3_OnOffOneCall ==
    [][ /\ (calls' # calls /\ op' = "on") =>
             /\ calls' = Append(calls, Call("set_power", <<"on">>))
             /\ result' = reply'
        /\ (calls' # calls /\ op' = "off") =>
             /\ calls' = Append(calls, Call("set_power", <<"off">>))
             /\ result' = reply' ]_vars

\* C3 witness: on() then off() have both returned the transport's
\* acknowledgement
C3_Witness ==
    /\ op = "off"
    /\ result = Ret(<<"list", <<"ok">>>>)
    /\ calls = <<Call("set_power", <<"on">>), Call("set_power", <<"off">>)>>

\* C4: for a state of five known wire codes, power, mode, fan_speed and
\* swing_mode read as the wire-code table says.
C4_KnownCodesMatchTable ==
    rec["state"] \in KnownTokenLists =>
        \A f \in TableFields :
            WasRead(f) =>
                reads[f] = Ret(TableValue(f, rec["state"][TokenPos(f)]))

\* C5: when the token of mode, fan_speed or swing_mode is a string that is
\* not a wire code of its enumeration, the property reads None and does not
\* raise.
C5_UnknownCodeReadsNone ==
    \A f \in EnumFields :
        (/\ WasRead(f)
         /\ HasToken(f, rec["state"])
         /\ ~IsWireCode(f, rec["state"][TokenPos(f)])) =>
            reads[f] = Ret(None)

\* C6: target_temperature is the integer in token 2 after its first
\* character, and None, without raising, when token 2 is absent or its
\* remainder is not an integer.
C6_TargetTemperatureOrNone ==
    WasRead("target_temperature") =>
        reads["target_temperature"] =
            Ret(Expected("target_temperature", rec["state"]))

\* C7: for a state with fewer than five tokens or a malformed token, every
\* token-backed property still reads without raising: None where its token
\* is missing or malformed, the decoded value where it is present and valid.
C7_MalformedDegradesFieldOnly ==
    rec["state"] \notin KnownTokenLists =>
        \A f \in TableFields \cup {"target_temperature"} :
            WasRead(f) => reads[f] = Ret(Expected(f, rec["state"]))

C9_LoadPowerTruncated ==
    WasRead("load_power") =>
        reads["load_power"] = Ret(IntV(Trunc(rec["data"].load_power[2])))

====
